---- MODULE Spec2Model ----
(***************************************************************************)
(* Model of cooperbot-twitch.py: the SimpleBot chat handler.               *)
(*                                                                         *)
(* Python strings are sequences of one-character strings, so that lower(), *)
(* strip(), the `in` substring test, slicing and f-string concatenation    *)
(* are computed character by character as the code computes them.          *)
(*                                                                         *)
(* A handler is a coroutine.  It runs without interruption up to an await  *)
(* (the generation call of line 124, the channel sends of lines 131, 136   *)
(* and 142), so one action models one such uninterrupted stretch:          *)
(*   EventMessage   event_message up to the await of the generation call   *)
(*   CallReturns    the generation call answers; handle_mention runs up to *)
(*                  the await of channel.send                              *)
(*   SendReturns    channel.send returns or raises; handle_mention runs to *)
(*                  its end or up to the send of the except handler        *)
(***************************************************************************)
EXTENDS Integers, Sequences, FiniteSets, TLC

\* number of chat events of a run
MaxEvents == 2

Events == 1..MaxEvents

----------------------------------------------------------------------------
\* Python str operations

Whitespace == {" ", "\n", "\t"}

UpperChars == <<"A", "B", "C", "D", "E", "F", "G", "H", "I", "J", "K", "L", "M", "N", "O", "P", "Q", "R", "S", "T", "U", "V", "W", "X", "Y", "Z">>

LowerChars == <<"a", "b", "c", "d", "e", "f", "g", "h", "i", "j", "k", "l", "m", "n", "o", "p", "q", "r", "s", "t", "u", "v", "w", "x", "y", "z">>

\* str.lower() on one character
LowerChar(c) ==
    IF \E i \in 1..26 : UpperChars[i] = c
    THEN LowerChars[CHOOSE i \in 1..26 : UpperChars[i] = c]
    ELSE c

\* str.lower()
Lower(s) == [i \in 1..Len(s) |-> LowerChar(s[i])]

\* str.strip(): drop the whitespace at both ends
Strip(s) ==
    IF \A i \in 1..Len(s) : s[i] \in Whitespace
    THEN <<>>
    ELSE LET first == CHOOSE i \in 1..Len(s) :
                          /\ s[i] \notin Whitespace
                          /\ \A j \in 1..(i - 1) : s[j] \in Whitespace
             last  == CHOOSE i \in 1..Len(s) :
                          /\ s[i] \notin Whitespace
                          /\ \A j \in (i + 1)..Len(s) : s[j] \in Whitespace
         IN  SubSeq(s, first, last)

\* the `sub in s` substring test
Contains(s, sub) ==
    \E i \in 0..(Len(s) - Len(sub)) : SubSeq(s, i + 1, i + Len(sub)) = sub

\* str.startswith
StartsWith(s, p) == Len(s) >= Len(p) /\ SubSeq(s, 1, Len(p)) = p

\* s[:n]
Slice(s, n) == SubSeq(s, 1, IF Len(s) < n THEN Len(s) ELSE n)

\* a text of n characters whose characters differ by position
Digits == <<"0", "1", "2", "3", "4", "5", "6", "7", "8", "9">>

LongText(n) == [i \in 1..n |-> Digits[(i % 10) + 1]]

----------------------------------------------------------------------------
\* Fixed texts of the program

FailedMsg == <<"S", "o", "r", "r", "y", ",", " ", "I", " ", "c", "o", "u", "l", "d", "n", "'", "t", " ", "g", "e", "n", "e", "r", "a", "t", "e", " ", "a", " ", "r", "e", "s", "p", "o", "n", "s", "e", "!">>

OopsMsg == <<"O", "o", "p", "s", ",", " ", "s", "o", "m", "e", "t", "h", "i", "n", "g", " ", "w", "e", "n", "t", " ", "w", "r", "o", "n", "g", "!">>

ErrorPrefix == <<"E", "r", "r", "o", "r", ":", " ">>

Ellipsis == <<".", ".", ".">>

PromptMid == <<"\n", "\n", "T", "h", "e", " ", "u", "s", "e", "r", " ">>

PromptSaid == <<" ", "s", "a", "i", "d", ":", " ">>

PromptTail == <<"\n", "R", "e", "s", "p", "o", "n", "d", " ", "n", "a", "t", "u", "r", "a", "l", "l", "y", " ", "a", "s", " ", "i", "f", " ", "y", "o", "u", "'", "r", "e", " ", "c", "h", "a", "t", "t", "i", "n", "g", " ", "i", "n", " ", "T", "w", "i", "t", "c", "h", ".">>

\* Twitch's limit on the generated part of a reply
MaxReply == 500

\* characters kept in front of the ellipsis
KeepLen == 497

\* the HTTP status call_ollama accepts
StatusOk == 200

\* aiohttp.ClientTimeout(total=30): seconds the POST may take
Timeout == 30

----------------------------------------------------------------------------
\* Configuration of the run (environment and files read by __init__)

\* TWITCH_BOT_NAME
BotNameEnv == <<"B", "o", "t">>

\* contents of system_prompt.txt
SystemPromptFile == <<" ", "B", "e", " ", "b", "r", "i", "e", "f", ".", "\n">>

\* lines of ignored_users.txt
IgnoredUsersFile ==
    << <<"T", "r", "o", "l", "l", "\n">>,
       <<"#", " ", "a", "n", "n", "\n">>,
       <<"\n">>,
       <<" ", "S", "p", "a", "m", " ", "\n">> >>

\* TWITCH_CHANNEL
channel_name == <<"c", "h", "a", "n">>

\* OLLAMA_MODEL
ollama_model == <<"l", "l", "a", "m", "a", "2">>

bot_name == Lower(BotNameEnv)

system_prompt == Strip(SystemPromptFile)

\* load_ignored_users: the stripped, lowercased lines that are neither empty
\* nor comments
LoadIgnoredUsers(lines) ==
    { Lower(Strip(lines[i])) :
        i \in { k \in 1..Len(lines) :
                  /\ Strip(lines[k]) # <<>>
                  /\ ~StartsWith(Strip(lines[k]), <<"#">>) } }

ignored_users == LoadIgnoredUsers(IgnoredUsersFile)

----------------------------------------------------------------------------
\* Inputs: chat messages and outcomes of the HTTP call

Ann == <<"A", "n", "n">>

ann == <<"a", "n", "n">>

Troll == <<"T", "r", "o", "l", "l">>

troll == <<"t", "r", "o", "l", "l">>

AtBotHi == <<"@", "b", "o", "t", " ", "h", "i">>

AtBotCap == <<"@", "B", "o", "t", " ", "h", "i">>

RoBOT == <<"r", "o", "B", "O", "T">>

Hello == <<"h", "e", "l", "l", "o">>

HelloBack == <<"H", "e", "l", "l", "o", " ", "b", "a", "c", "k", "!">>

Msg(a, c, echo) == [author |-> a, content |-> c, echo |-> echo]

NoMsg == Msg(<<>>, <<>>, FALSE)

Messages ==
    { Msg(ann, AtBotHi, FALSE),     \* mention
      Msg(Ann, RoBOT, FALSE),       \* mention by infix, mixed case
      Msg(ann, Hello, FALSE),       \* no mention
      Msg(Troll, AtBotCap, FALSE),  \* ignored author, mention
      Msg(troll, Hello, FALSE),     \* ignored author, no mention
      Msg(ann, AtBotHi, TRUE),      \* echo of a mention
      Msg(Troll, AtBotCap, TRUE),   \* echo, ignored author, mention
      Msg(troll, Hello, TRUE) }     \* echo, ignored author, no mention

\* the `response` field of a JSON body
ResponseTexts ==
    { <<>>,
      <<" ", "\n">>,
      <<" ">> \o HelloBack \o <<"\n">>,
      LongText(MaxReply),
      LongText(MaxReply + 1),
      LongText(MaxReply + 100),
      FailedMsg }                   \* a generated text that reads as the fallback

\* outcome of session.post: a response with a status and a body, or an
\* exception of the HTTP client
HttpResponse(status, isJson, hasField, text) ==
    [kind |-> "response", status |-> status, isJson |-> isJson,
     hasField |-> hasField, response |-> text]

HttpFailure(k) ==
    [kind |-> k, status |-> 0, isJson |-> FALSE, hasField |-> FALSE,
     response |-> <<>>]

NoHttp == HttpFailure("none")

TransportFailures ==
    { HttpFailure("timeout"), HttpFailure("connection error"),
      HttpResponse(StatusOk, FALSE, FALSE, <<>>) }

HttpOutcomes ==
    { HttpResponse(StatusOk, TRUE, TRUE, t) : t \in ResponseTexts }
    \cup { HttpResponse(StatusOk, TRUE, FALSE, <<>>),
           HttpResponse(500, TRUE, TRUE, HelloBack) }
    \cup TransportFailures

\* description of the exception a failing channel.send raises
SendError == <<"s", "e", "n", "d", " ", "f", "a", "i", "l", "e", "d">>

\* description of the exception of the stubbed generation call
TestError == <<"T", "e", "s", "t", " ", "e", "r", "r", "o", "r">>

----------------------------------------------------------------------------
\* call_ollama

\* what the awaited call hands to handle_mention: a str, None, or an exception
Text(t) == [tag |-> "text", text |-> t]

None == [tag |-> "none", text |-> <<>>]

Raised(desc) == [tag |-> "raise", text |-> desc]

Pending == [tag |-> "pending", text |-> <<>>]

\* the prompt and the JSON payload of the POST
Payload(user_message, username) ==
    [model  |-> ollama_model,
     prompt |-> system_prompt \o PromptMid \o username \o PromptSaid
                  \o user_message \o PromptTail,
     stream |-> FALSE]

\* description of the exception of the HTTP client
ClientError == <<"c", "l", "i", "e", "n", "t", " ", "e", "r", "r", "o", "r">>

\* call_ollama without its `except Exception`: the exception of the client
\* reaches handle_mention
CallOllamaUncaught(h) ==
    IF h.kind # "response" THEN Raised(ClientError)
    ELSE IF h.status = StatusOk
         THEN IF ~h.isJson THEN Raised(ClientError)
              ELSE Text(Strip(IF h.hasField THEN h.response ELSE <<>>))
         ELSE None

\* the value call_ollama returns for an outcome of the POST: every exception
\* of the client (timeout, connection error, a body that is not JSON) is
\* caught and gives None, as a status other than 200 does
CallOllama(h) ==
    IF h.kind # "response" THEN None
    ELSE IF h.status = StatusOk
         THEN IF ~h.isJson THEN None
              ELSE Text(Strip(IF h.hasField THEN h.response ELSE <<>>))
         ELSE None

\* call_ollama with a second POST after an answer that gives no result
PostsOnAnswerRetry(ps, e, h) ==
    IF CallOllama(h).tag = "none"
    THEN Append(ps, [ev |-> e, payload |-> ps[CHOOSE i \in 1..Len(ps) : ps[i].ev = e].payload])
    ELSE ps

\* the POSTs issued once the POST of event e has outcome h: call_ollama
\* returns on every outcome (lines 167, 170, 174) and posts nothing more
PostsOnAnswer(ps, e, h) == ps

----------------------------------------------------------------------------
\* event_message: the filters

\* mention detection that asks for the `@` in front of the name
BotMentionedAtOnly(content) ==
    Contains(Lower(content), <<"@">> \o bot_name)

\* bot_mentioned
BotMentioned(content) ==
    LET c == Lower(content)
    IN  Contains(c, bot_name) \/ Contains(c, <<"@">> \o bot_name)

\* the membership test without .lower()
IsIgnoredCaseSensitive(name) == name \in ignored_users

\* message.author.name.lower() in self.ignored_users
IsIgnored(name) == Lower(name) \in ignored_users

\* event_message without the echo test
RouteWithoutEchoTest(m) ==
    IF IsIgnored(m.author)
    THEN IF BotMentioned(m.content) THEN "ignored attempt" ELSE "ignored"
    ELSE IF BotMentioned(m.content) THEN "mention" ELSE "not-a-mention"

\* the path event_message takes for a message
Route(m) ==
    IF m.echo THEN "echo"
    ELSE IF IsIgnored(m.author)
         THEN IF BotMentioned(m.content) THEN "ignored attempt" ELSE "ignored"
         ELSE IF BotMentioned(m.content) THEN "mention" ELSE "not-a-mention"

----------------------------------------------------------------------------
\* handle_mention: the pieces

\* `if response_text:` is true of a non-empty str only
Truthy(r) == r.tag = "text" /\ r.text # <<>>

\* the branch handle_mention takes on the outcome of the awaited call
BranchOf(r) ==
    IF r.tag = "raise" THEN "error"
    ELSE IF Truthy(r) THEN "success" ELSE "failure"

\* truncation that keeps 500 characters in front of the ellipsis
TruncateKeepsAll(t) ==
    IF Len(t) > MaxReply THEN Slice(t, MaxReply) \o Ellipsis ELSE t

\* lines 128-129
Truncate(t) ==
    IF Len(t) > MaxReply THEN Slice(t, KeepLen) \o Ellipsis ELSE t

\* the same apology in the failure branch and in the except handler
ReplyTextOneApology(b, t) ==
    CASE b = "success" -> t
      [] OTHER         -> OopsMsg

\* the text a branch puts after the prefix
ReplyText(b, t) ==
    CASE b = "success" -> t
      [] b = "failure" -> FailedMsg
      [] OTHER         -> OopsMsg

\* the reply without the space after the username
ReplyBodyNoSpace(username, t) == <<"@">> \o username \o t

\* f"@{message.author.name} {...}"
ReplyBody(username, t) == <<"@">> \o username \o <<" ">> \o t

\* the failure branch logged under the tag of the except handler
LogKindFailureAsError(b) ==
    CASE b = "success" -> "SUCCESSFUL RESPONSE"
      [] OTHER         -> "ERROR"

\* interaction_type of a branch
LogKind(b) ==
    CASE b = "success" -> "SUCCESSFUL RESPONSE"
      [] b = "failure" -> "FAILED RESPONSE"
      [] OTHER         -> "ERROR"

\* the except handler logging error_msg instead of str(e)
LogResponseWithoutDescription(b, t, d) ==
    CASE b = "success" -> Text(t)
      [] b = "failure" -> Text(FailedMsg)
      [] OTHER         -> Text(OopsMsg)

\* bot_response of a branch (d: str(e) of the caught exception)
LogResponse(b, t, d) ==
    CASE b = "success" -> Text(t)
      [] b = "failure" -> Text(FailedMsg)
      [] OTHER         -> Text(ErrorPrefix \o d)

\* a branch that logs before it sends
BranchBodyLogFirst(b) == <<"log", "send">>

\* the statements of a branch that act on the channel and on the log, in the
\* order of the code
BranchBody(b) == <<"send", "log">>

\* state of the event once the branch has run to its end
Terminal(b) ==
    CASE b = "success" -> "replied-success"
      [] b = "failure" -> "replied-failure"
      [] OTHER         -> "replied-error"

\* description of the exception of a failing log write
LogError == <<"w", "r", "i", "t", "e", " ", "f", "a", "i", "l", "e", "d">>

\* log_interaction without its `except Exception`: the failure of the write
\* reaches the caller
LogRaisesOnFailure(lo) == lo = "fail"

\* whether log_interaction raises into its caller when the write has outcome
\* lo: lines 91-92 catch every exception of the write
LogRaises(lo) == FALSE

\* log_interaction with `if bot_response:` around the whole write
LogInteractionOnlyWithResponse(lg, e, interaction_type, username, user_message, bot_response, lo) ==
    IF lo = "ok" /\ Truthy(bot_response)
    THEN Append(lg, [ev          |-> e,
                     kind        |-> interaction_type,
                     user        |-> username,
                     message     |-> user_message,
                     hasResponse |-> TRUE,
                     response    |-> bot_response.text])
    ELSE lg

\* log_interaction: appends one record, or nothing when the write fails (the
\* exception is caught and printed).  The `Bot Response` line is written for
\* a non-empty bot_response only.
LogInteraction(lg, e, interaction_type, username, user_message, bot_response, lo) ==
    IF lo = "ok"
    THEN Append(lg, [ev          |-> e,
                     kind        |-> interaction_type,
                     user        |-> username,
                     message     |-> user_message,
                     hasResponse |-> Truthy(bot_response),
                     response    |-> IF Truthy(bot_response)
                                     THEN bot_response.text ELSE <<>>])
    ELSE lg

\* a line of the log file: what the line is, the tag or text it carries, and
\* the event whose handler wrote it (0: __init__).  The timestamps are left
\* out.
Line(what, kind, txt, e) == [what |-> what, kind |-> kind, text |-> txt, ev |-> e]

\* init_log_file: the header
HeaderLines ==
    << Line("started", "", <<>>, 0),
       Line("Channel", "", channel_name, 0),
       Line("Bot Name", "", bot_name, 0),
       Line("Ollama Model", "", ollama_model, 0),
       Line("rule", "", <<>>, 0) >>

\* the lines log_interaction writes for one record
RecordLines(e, interaction_type, username, user_message, bot_response) ==
    << Line("type", interaction_type, <<>>, e),
       Line("User", "", username, e),
       Line("Message", "", user_message, e) >>
    \o (IF Truthy(bot_response)
        THEN <<Line("Bot Response", "", bot_response.text, e)>>
        ELSE <<>>)
    \o <<Line("separator", "", <<>>, e)>>

\* log_interaction opening the file with 'w': the write replaces the file
WriteRecordTruncating(f, e, interaction_type, username, user_message, bot_response, lo) ==
    IF lo = "ok"
    THEN RecordLines(e, interaction_type, username, user_message, bot_response)
    ELSE f

\* log_interaction on the file: opened with 'a', the lines of the record are
\* written in one call that holds no await; nothing when the write fails
WriteRecord(f, e, interaction_type, username, user_message, bot_response, lo) ==
    IF lo = "ok"
    THEN f \o RecordLines(e, interaction_type, username, user_message, bot_response)
    ELSE f

----------------------------------------------------------------------------
\* State

VARIABLES
    pc,     \* pc[e]: where the handler of event e is
    msg,    \* msg[e]: the message of event e
    http,   \* http[e]: the outcome of the POST of event e
    res,    \* res[e]: what the awaited generation call gave handle_mention
    br,     \* br[e]: branch of handle_mention the handler is in
    ip,     \* ip[e]: index in BranchBody of the statement being awaited
    text,   \* text[e]: response_text
    exc,    \* exc[e]: str(e) of the exception the handler caught
    chat,   \* chat[e]: the calls of message.channel.send of event e, in order
    log,    \* the records of the log file, in order
    file,   \* the lines of the log file
    posts,  \* the POSTs issued, in order
    waited  \* waited[e]: seconds the POST of event e has been pending

vars == <<pc, msg, http, res, br, ip, text, exc, chat, log, file, posts, waited>>

Terminals ==
    {"ignored", "not-a-mention", "replied-success", "replied-failure",
     "replied-error"}

Init ==
    /\ pc = [e \in Events |-> "idle"]
    /\ msg = [e \in Events |-> NoMsg]
    /\ http = [e \in Events |-> NoHttp]
    /\ res = [e \in Events |-> Pending]
    /\ br = [e \in Events |-> "none"]
    /\ ip = [e \in Events |-> 0]
    /\ text = [e \in Events |-> <<>>]
    /\ exc = [e \in Events |-> <<>>]
    /\ chat = [e \in Events |-> <<>>]
    /\ log = <<>>
    /\ file = HeaderLines
    /\ posts = <<>>
    /\ waited = [e \in Events |-> 0]

\* a POST made with a blocking client: while it is pending the event loop
\* runs no other handler
PostBlocksLoopSync(e) == \E d \in Events \ {e} : pc[d] = "generating"

\* the POST is awaited (`async with session.post`, `await response.json()`):
\* a pending POST of another event keeps the event loop from nothing
PostBlocksLoop(e) == FALSE

\* the message kept in an attribute of the bot that every event overwrites
LastMessage(e) ==
    msg[CHOOSE d \in Events :
            /\ pc[d] # "idle"
            /\ \A c \in Events : pc[c] # "idle" => c <= d]

\* `message`, the parameter of handle_mention: each call has its own
MessageOf(e) == msg[e]

\* handle_mention from statement i of branch b up to the next await or to the
\* end of the branch.  S holds the sends of the event and the log so far.
RECURSIVE RunFrom(_, _, _, _, _, _, _)
RunFrom(e, b, i, t, d, S, lo) ==
    IF i > Len(BranchBody(b))
    THEN [chat |-> S.chat, log |-> S.log, file |-> S.file,
          pc |-> Terminal(b), ip |-> i, br |-> b, exc |-> d]
    ELSE IF BranchBody(b)[i] = "send"
         THEN [chat |-> Append(S.chat,
                          [body |-> ReplyBody(MessageOf(e).author, ReplyText(b, t)),
                           st   |-> "pending"]),
               log  |-> S.log, file |-> S.file, pc |-> "sending", ip |-> i,
               br |-> b, exc |-> d]
         ELSE LET written ==
                      [chat |-> S.chat,
                       log  |-> LogInteraction(S.log, e, LogKind(b),
                                    MessageOf(e).author, MessageOf(e).content,
                                    LogResponse(b, t, d), lo),
                       file |-> WriteRecord(S.file, e, LogKind(b),
                                    MessageOf(e).author, MessageOf(e).content,
                                    LogResponse(b, t, d), lo)]
              IN  IF ~LogRaises(lo)
                  THEN RunFrom(e, b, i + 1, t, d, written, lo)
                  ELSE IF b # "error"
                       THEN \* raised inside the try: the except handler runs
                            RunFrom(e, "error", 1, t, LogError, written, lo)
                       ELSE \* raised inside the except handler
                            [chat |-> written.chat, log |-> written.log,
                             file |-> written.file,
                             pc |-> "raised", ip |-> i, br |-> b, exc |-> d]

\* event_message for message m of event e, up to its return or to the await
\* of the generation call.  lo: outcome of the log write.
EventMessage(e, m, lo) ==
    /\ pc[e] = "idle"
    /\ \A d \in 1..(e - 1) : pc[d] # "idle"
    /\ ~PostBlocksLoop(e)
    /\ msg' = [msg EXCEPT ![e] = m]
    /\ pc' = [pc EXCEPT ![e] =
                 CASE Route(m) = "mention"         -> "generating"
                   [] Route(m) = "ignored attempt" ->
                          IF LogRaises(lo) THEN "raised" ELSE "ignored"
                   [] Route(m) = "ignored"         -> "ignored"
                   [] OTHER                        -> "not-a-mention"]
    /\ log' = IF Route(m) = "ignored attempt"
              THEN LogInteraction(log, e, "IGNORED USER ATTEMPT",
                                  m.author, m.content, None, lo)
              ELSE log
    /\ file' = IF Route(m) = "ignored attempt"
               THEN WriteRecord(file, e, "IGNORED USER ATTEMPT",
                                m.author, m.content, None, lo)
               ELSE file
    /\ posts' = IF Route(m) = "mention"
                THEN Append(posts, [ev |-> e,
                                    payload |-> Payload(m.content, m.author)])
                ELSE posts
    /\ UNCHANGED <<http, res, br, ip, text, exc, chat, waited>>

\* the generation call of event e answers: h is the outcome of the POST and r
\* what the await gives handle_mention
CallReturns(e, h, r, lo) ==
    /\ pc[e] = "generating"
    /\ ~PostBlocksLoop(e)
    /\ http' = [http EXCEPT ![e] = h]
    /\ res' = [res EXCEPT ![e] = r]
    /\ LET b == BranchOf(r)
           t == IF b = "success" THEN Truncate(r.text) ELSE <<>>
           d == IF b = "error" THEN r.text ELSE <<>>
           S == RunFrom(e, b, 1, t, d,
                        [chat |-> chat[e], log |-> log, file |-> file], lo)
       IN  /\ br' = [br EXCEPT ![e] = S.br]
           /\ text' = [text EXCEPT ![e] = t]
           /\ exc' = [exc EXCEPT ![e] = S.exc]
           /\ ip' = [ip EXCEPT ![e] = S.ip]
           /\ pc' = [pc EXCEPT ![e] = S.pc]
           /\ chat' = [chat EXCEPT ![e] = S.chat]
           /\ log' = S.log
           /\ file' = S.file
    /\ posts' = PostsOnAnswer(posts, e, h)
    /\ UNCHANGED <<msg, waited>>

\* the channel.send event e awaits returns (so = "ok") or raises
SendReturns(e, so, lo) ==
    /\ pc[e] = "sending"
    /\ ~PostBlocksLoop(e)
    /\ LET k == CHOOSE j \in 1..Len(chat[e]) : chat[e][j].st = "pending"
           sent == [chat[e] EXCEPT ![k].st = IF so = "ok" THEN "ok" ELSE "raised"]
       IN  IF so = "ok"
           THEN LET S == RunFrom(e, br[e], ip[e] + 1, text[e], exc[e],
                                 [chat |-> sent, log |-> log, file |-> file], lo)
                IN  /\ pc' = [pc EXCEPT ![e] = S.pc]
                    /\ ip' = [ip EXCEPT ![e] = S.ip]
                    /\ chat' = [chat EXCEPT ![e] = S.chat]
                    /\ log' = S.log
                    /\ file' = S.file
                    /\ br' = [br EXCEPT ![e] = S.br]
                    /\ exc' = [exc EXCEPT ![e] = S.exc]
           ELSE IF br[e] # "error"
                THEN \* raised inside the try: the except handler runs
                     LET S == RunFrom(e, "error", 1, text[e], SendError,
                                      [chat |-> sent, log |-> log, file |-> file], lo)
                     IN  /\ br' = [br EXCEPT ![e] = S.br]
                         /\ exc' = [exc EXCEPT ![e] = S.exc]
                         /\ pc' = [pc EXCEPT ![e] = S.pc]
                         /\ ip' = [ip EXCEPT ![e] = S.ip]
                         /\ chat' = [chat EXCEPT ![e] = S.chat]
                         /\ log' = S.log
                         /\ file' = S.file
                ELSE \* raised inside the except handler: nothing catches it
                     /\ pc' = [pc EXCEPT ![e] = "raised"]
                     /\ chat' = [chat EXCEPT ![e] = sent]
                     /\ UNCHANGED <<br, exc, ip, log, file>>
    /\ UNCHANGED <<msg, http, res, text, posts, waited>>

\* a POST without `timeout=`: the client waits for the server for ever
NeverTimedOut(w) == FALSE

\* the total timeout of the POST has expired
TimedOut(w) == w >= Timeout

\* the 30 seconds pass while the POST of event e is pending (the instants in
\* between are not told apart: the code reads no clock)
Tick(e) ==
    /\ pc[e] = "generating"
    /\ waited[e] < Timeout
    /\ waited' = [waited EXCEPT ![e] = Timeout]
    /\ UNCHANGED <<pc, msg, http, res, br, ip, text, exc, chat, log, file, posts>>

\* the server, or the connection, gives the POST of event e an outcome before
\* the timeout expires
Answers(e, h) ==
    /\ ~TimedOut(waited[e])
    /\ h # HttpFailure("timeout")
    /\ CallReturns(e, h, CallOllama(h), "ok")

\* the timeout expires: session.post raises asyncio.TimeoutError inside
\* call_ollama
TimeoutFires(e) ==
    /\ TimedOut(waited[e])
    /\ CallReturns(e, HttpFailure("timeout"), CallOllama(HttpFailure("timeout")), "ok")

----------------------------------------------------------------------------
\* Specifications

SendOutcomes == {"ok", "raise"}

LogOutcomes == {"ok", "fail"}

\* the bot with a channel whose sends return and a log file that can be
\* written
Next ==
    \E e \in Events :
        \/ \E m \in Messages : EventMessage(e, m, "ok")
        \/ \E h \in HttpOutcomes : CallReturns(e, h, CallOllama(h), "ok")
        \/ SendReturns(e, "ok", "ok")

Spec == Init /\ [][Next]_vars

\* the bot with a channel whose sends may raise and a log file whose writes
\* may fail
NextFaults ==
    \E e \in Events, lo \in LogOutcomes :
        \/ \E m \in Messages : EventMessage(e, m, lo)
        \/ \E h \in HttpOutcomes : CallReturns(e, h, CallOllama(h), lo)
        \/ \E so \in SendOutcomes : SendReturns(e, so, lo)

SpecFaults == Init /\ [][NextFaults]_vars

\* the bot with a channel whose sends return and a log file whose writes may
\* fail
NextLogFaults ==
    \E e \in Events, lo \in LogOutcomes :
        \/ \E m \in Messages : EventMessage(e, m, lo)
        \/ \E h \in HttpOutcomes : CallReturns(e, h, CallOllama(h), lo)
        \/ SendReturns(e, "ok", lo)

SpecLogFaults == Init /\ [][NextLogFaults]_vars

\* handle_mention with call_ollama replaced by a stub that raises, as
\* test_handle_mention_exception replaces it
StubRaises(e) == CallReturns(e, NoHttp, Raised(TestError), "ok")

NextStub == Next \/ \E e \in Events : StubRaises(e)

SpecStub == Init /\ [][NextStub]_vars

\* one message for each path of event_message and one outcome of the POST for
\* each branch of call_ollama: termination does not depend on the texts
LiveMessages ==
    { Msg(ann, AtBotHi, FALSE), Msg(Ann, RoBOT, FALSE), Msg(ann, Hello, FALSE),
      Msg(Troll, AtBotCap, FALSE), Msg(troll, Hello, FALSE),
      Msg(ann, AtBotHi, TRUE) }

LiveOutcomes ==
    { HttpResponse(StatusOk, TRUE, TRUE, <<" ">> \o HelloBack \o <<"\n">>),
      HttpResponse(StatusOk, TRUE, TRUE, <<>>),
      HttpResponse(500, TRUE, TRUE, HelloBack),
      HttpFailure("connection error") }

\* the bot with the clock of the POST: the server may answer or not, the
\* channel sends return, the log file can be written
NextLive ==
    \E e \in Events :
        \/ \E m \in LiveMessages : EventMessage(e, m, "ok")
        \/ \E h \in LiveOutcomes : Answers(e, h)
        \/ Tick(e)
        \/ TimeoutFires(e)
        \/ SendReturns(e, "ok", "ok")

\* the event loop runs every task that is ready: time passes, an expired
\* timeout is raised, a send that is awaited returns.  Nothing obliges a chat
\* event to arrive or the server to answer.
Fairness ==
    \A e \in Events :
        /\ WF_vars(Tick(e))
        /\ WF_vars(TimeoutFires(e))
        /\ WF_vars(SendReturns(e, "ok", "ok"))

SpecLive == Init /\ [][NextLive]_vars /\ Fairness

----------------------------------------------------------------------------
\* Views of the state used by the properties

ChatOf(e) == chat[e]

LogOf(e) == SelectSeq(log, LAMBDA r : r.ev = e)

PostsOf(e) == SelectSeq(posts, LAMBDA p : p.ev = e)

Received(e) == pc[e] # "idle"

Done(e) == pc[e] \in Terminals

TypeOK ==
    /\ pc \in [Events -> {"idle", "generating", "sending", "raised"} \cup Terminals]
    /\ br \in [Events -> {"none", "success", "failure", "error"}]
    /\ \A e \in Events : \A i \in 1..Len(chat[e]) :
           chat[e][i].st \in {"pending", "ok", "raised"}

----------------------------------------------------------------------------
\* Properties

SuccessRecord(e, username, user_message, t) ==
    [ev |-> e, kind |-> "SUCCESSFUL RESPONSE", user |-> username,
     message |-> user_message, hasResponse |-> TRUE, response |-> t]

FailureRecord(e, username, user_message) ==
    [ev |-> e, kind |-> "FAILED RESPONSE", user |-> username,
     message |-> user_message, hasResponse |-> TRUE, response |-> FailedMsg]

ErrorRecord(e, username, user_message, desc) ==
    [ev |-> e, kind |-> "ERROR", user |-> username,
     message |-> user_message, hasResponse |-> TRUE,
     response |-> ErrorPrefix \o desc]

IgnoredRecord(e, username, user_message) ==
    [ev |-> e, kind |-> "IGNORED USER ATTEMPT", user |-> username,
     message |-> user_message, hasResponse |-> FALSE, response |-> <<>>]

\* a send of text t to the author of event e that has returned
SentOk(e, t) ==
    [body |-> <<"@">> \o msg[e].author \o <<" ">> \o t, st |-> "ok"]

\* C1: for every event, whatever the generation call, the channel send and the
\* log write do and however the handlers interleave, at most one reply is
\* handed to the channel and at most one log record is written.
C1_AtMostOneReplyAndRecord ==
    \A e \in Events : Len(ChatOf(e)) <= 1 /\ Len(LogOf(e)) <= 1

\* C2: no exception raised inside mention handling leaves handle_mention, and
\* every exception the handler caught is answered with the "something went
\* wrong" reply.
C2_NoExceptionEscapes ==
    \A e \in Events :
        /\ pc[e] # "raised"
        /\ (br[e] = "error" /\ pc[e] \notin {"sending", "generating"})
               => \E i \in 1..Len(ChatOf(e)) : ChatOf(e)[i] = SentOk(e, OopsMsg)

\* the reply and the record of a generated text t, as C3 states them
RepliedWithText(e, t) ==
    /\ ChatOf(e) = <<SentOk(e, t)>>
    /\ LogOf(e) = <<SuccessRecord(e, msg[e].author, msg[e].content, t)>>

\* C3 as stated: a generated text of any length from 0 to 500 is sent as the
\* single reply `@{username} {text}` and logged as a SUCCESS record.
C3_TextUpTo500FromZero ==
    \A e \in Events :
        (Done(e) /\ res[e].tag = "text" /\ Len(res[e].text) \in 0..500)
            => RepliedWithText(e, res[e].text)

\* C3, amended: a generated text of any length from 1 to 500 is sent as the
\* single reply `@{username} {text}` and logged as a SUCCESS record with the
\* username, the verbatim message and the text.
C3_TextUpTo500 ==
    \A e \in Events :
        (Done(e) /\ res[e].tag = "text" /\ Len(res[e].text) \in 1..500)
            => RepliedWithText(e, res[e].text)

C3_Witness ==
    \E e \in Events :
        /\ pc[e] = "replied-success"
        /\ res[e] = Text(HelloBack)
        /\ msg[e].author = Ann

\* C4: a message with the echo flag set, whatever its author and content, gets
\* no reply, no log record and no generation call.
C4_EchoDoesNothing ==
    \A e \in Events :
        (Received(e) /\ msg[e].echo)
            => ChatOf(e) = <<>> /\ LogOf(e) = <<>> /\ PostsOf(e) = <<>>

C4_Witness ==
    \E e \in Events :
        /\ Done(e)
        /\ msg[e] = Msg(ann, AtBotHi, TRUE)

\* C5: a non-echo message whose author is, case-insensitively, in the ignored
\* set gets no reply and no generation call; a mention gets exactly one
\* IGNORED USER ATTEMPT record with the username as written and the verbatim
\* message, a message that is no mention gets no record.
C5_IgnoredAuthor ==
    \A e \in Events :
        (Received(e) /\ ~msg[e].echo /\ Lower(msg[e].author) \in ignored_users)
            => /\ ChatOf(e) = <<>>
               /\ PostsOf(e) = <<>>
               /\ pc[e] = "ignored"
               /\ LogOf(e) =
                    IF Contains(Lower(msg[e].content), bot_name)
                    THEN <<IgnoredRecord(e, msg[e].author, msg[e].content)>>
                    ELSE <<>>

C5_Witness ==
    \E e \in Events :
        /\ msg[e] = Msg(Troll, AtBotCap, FALSE)
        /\ LogOf(e) = <<IgnoredRecord(e, Troll, AtBotCap)>>

\* the part of a reply after the `@{username} ` prefix
AfterPrefix(e, body) == SubSeq(body, Len(msg[e].author) + 3, Len(body))

\* C6: a generated text of more than 500 characters is sent as `@{username} `,
\* its first 497 characters and `...`, 500 characters after the prefix; a text
\* of exactly 500 characters is sent whole; no reply has more than 500
\* characters after the prefix.
C6_Truncation ==
    \A e \in Events :
        /\ (Done(e) /\ res[e].tag = "text" /\ Len(res[e].text) > 500)
              => /\ ChatOf(e) =
                      <<SentOk(e, SubSeq(res[e].text, 1, 497) \o <<".", ".", ".">>)>>
                 /\ Len(AfterPrefix(e, ChatOf(e)[1].body)) = 500
        /\ (Done(e) /\ res[e].tag = "text" /\ Len(res[e].text) = 500)
              => ChatOf(e) = <<SentOk(e, res[e].text)>>
        /\ \A i \in 1..Len(ChatOf(e)) :
              /\ SubSeq(ChatOf(e)[i].body, 1, Len(msg[e].author) + 2)
                   = <<"@">> \o msg[e].author \o <<" ">>
              /\ Len(AfterPrefix(e, ChatOf(e)[i].body)) <= 500

C6_Witness ==
    \E e \in Events :
        /\ pc[e] = "replied-success"
        /\ Len(res[e].text) = 501
        /\ ChatOf(e)[1].body[Len(msg[e].author) + 2 + 497] = res[e].text[497]
        /\ ChatOf(e)[1].body[Len(msg[e].author) + 2 + 498] = "."

\* what an observer sees of event e: what call_ollama returned, the state the
\* event is in, the replies and the records
Outcome(e) ==
    [result  |-> res[e],
     state   |-> pc[e],
     replies |-> ChatOf(e),
     records |-> [i \in 1..Len(LogOf(e)) |->
                    [kind        |-> LogOf(e)[i].kind,
                     user        |-> LogOf(e)[i].user,
                     message     |-> LogOf(e)[i].message,
                     hasResponse |-> LogOf(e)[i].hasResponse,
                     response    |-> LogOf(e)[i].response]]]

Answered(e) == pc[e] \notin {"idle", "generating"}

Non200(e) == http[e].kind = "response" /\ http[e].status # 200

\* C7: on a status other than 200 call_ollama returns no result, the reply is
\* `@{username} ` and the "couldn't generate a response" text, and exactly one
\* FAILED RESPONSE record is logged with the username, the verbatim message
\* and that text.
C7_Non200IsFailure ==
    \A e \in Events :
        (Answered(e) /\ Non200(e))
            => /\ res[e].tag = "none"
               /\ pc[e] \in {"sending", "replied-failure"}
               /\ Len(ChatOf(e)) = 1
               /\ ChatOf(e)[1].body = <<"@">> \o msg[e].author \o <<" ">> \o FailedMsg
               /\ Done(e) =>
                    /\ ChatOf(e) = <<SentOk(e, FailedMsg)>>
                    /\ LogOf(e) = <<FailureRecord(e, msg[e].author, msg[e].content)>>

C7_Witness ==
    \E e \in Events :
        /\ pc[e] = "replied-failure"
        /\ http[e].kind = "response"
        /\ http[e].status = 500

\* C8: a failure inside the generation client (timeout, connection error, a
\* body that is not JSON) looks like a status other than 200: call_ollama
\* returns no result, the event ends in replied-failure with the "couldn't
\* generate a response" reply and a FAILED RESPONSE record, never in
\* replied-error, and its outcome equals that of the same message answered
\* with a status other than 200.
C8_TransportFailureIsFailure ==
    \A e \in Events :
        (Answered(e) /\ http[e] \in TransportFailures)
            => /\ res[e].tag = "none"
               /\ br[e] = "failure"
               /\ pc[e] \in {"sending", "replied-failure"}
               /\ Done(e) =>
                    /\ ChatOf(e) = <<SentOk(e, FailedMsg)>>
                    /\ LogOf(e) = <<FailureRecord(e, msg[e].author, msg[e].content)>>
               /\ \A f \in Events :
                    (Non200(f) /\ msg[f] = msg[e] /\ pc[f] = pc[e])
                        => Outcome(f) = Outcome(e)

C8_Witness ==
    \E e, f \in Events :
        /\ pc[e] = "replied-failure"
        /\ http[e] = HttpResponse(200, FALSE, FALSE, <<>>)
        /\ pc[f] = "replied-failure"
        /\ Non200(f)
        /\ msg[f] = msg[e]

\* C9: when the generation call raises into handle_mention, the reply is
\* `@{username} ` and the "something went wrong" text, exactly one ERROR record
\* is logged and it carries the description of the exception, and no SUCCESS
\* or FAILURE record is written for the event.
C9_RaisingCallIsError ==
    \A e \in Events :
        res[e].tag = "raise"
            => /\ pc[e] \in {"sending", "replied-error"}
               /\ Len(ChatOf(e)) = 1
               /\ ChatOf(e)[1].body = <<"@">> \o msg[e].author \o <<" ">> \o OopsMsg
               /\ \A i \in 1..Len(LogOf(e)) :
                    LogOf(e)[i].kind \notin {"SUCCESSFUL RESPONSE", "FAILED RESPONSE"}
               /\ Done(e) =>
                    /\ ChatOf(e) = <<SentOk(e, OopsMsg)>>
                    /\ LogOf(e) = <<ErrorRecord(e, msg[e].author, msg[e].content,
                                                res[e].text)>>

C9_Witness ==
    \E e \in Events :
        /\ pc[e] = "replied-error"
        /\ res[e] = Raised(TestError)

\* C10: a SUCCESS, FAILURE or ERROR record is in the log only once the send of
\* the reply of its event has returned: no such record exists for an event
\* whose reply is not yet dispatched or whose send is still awaited.
C10_LogAfterSend ==
    \A i \in 1..Len(log) :
        log[i].kind \in {"SUCCESSFUL RESPONSE", "FAILED RESPONSE", "ERROR"}
            => /\ Len(ChatOf(log[i].ev)) >= 1
               /\ ChatOf(log[i].ev)[Len(ChatOf(log[i].ev))].st = "ok"

C10_Witness ==
    \E e, f \in Events :
        /\ pc[e] = "replied-error"
        /\ LogOf(e) # <<>>
        /\ pc[f] = "sending"
        /\ LogOf(f) = <<>>

\* the text handle_mention puts after the prefix for what call_ollama gave
ExpectedText(r) ==
    IF r.tag = "text" /\ Len(r.text) > 500
    THEN SubSeq(r.text, 1, 497) \o <<".", ".", ".">>
    ELSE IF r.tag = "text" /\ Len(r.text) > 0 THEN r.text
    ELSE IF r.tag = "none" \/ r.tag = "text"
         THEN FailedMsg
         ELSE OopsMsg

\* C11: a failing log write never raises out of log_interaction and leaves the
\* chat side alone: the one reply a working log would have seen is sent,
\* unchanged, and no further (fallback) reply is sent.
C11_LogFailureLeavesChatAlone ==
    \A e \in Events :
        /\ pc[e] # "raised"
        /\ Answered(e) =>
             IF ~msg[e].echo /\ Lower(msg[e].author) \notin ignored_users
                /\ Contains(Lower(msg[e].content), bot_name)
             THEN /\ Len(ChatOf(e)) = 1
                  /\ ChatOf(e)[1].body =
                       <<"@">> \o msg[e].author \o <<" ">> \o ExpectedText(res[e])
                  /\ Done(e) => ChatOf(e)[1].st = "ok"
             ELSE ChatOf(e) = <<>>
        /\ \A f \in Events :
             (msg[f] = msg[e] /\ http[f] = http[e] /\ pc[f] = pc[e])
                 => ChatOf(f) = ChatOf(e)

C11_Witness ==
    \E e, f \in Events :
        /\ pc[e] = "replied-success"
        /\ LogOf(e) = <<>>
        /\ pc[f] = "replied-success"
        /\ LogOf(f) # <<>>
        /\ msg[f] = msg[e]
        /\ http[f] = http[e]
        /\ ChatOf(f) = ChatOf(e)

\* a non-echo mention from an author who is not ignored
HandledMention(m) ==
    /\ ~m.echo
    /\ Lower(m.author) \notin ignored_users
    /\ Contains(Lower(m.content), bot_name)

\* C12: exactly one POST is issued for every non-echo mention from a
\* non-ignored author, whatever the outcome of the POST (no retry), and none
\* for any other event.
C12_OnePostPerMention ==
    /\ \A e \in Events :
          Received(e) =>
             Len(PostsOf(e)) = IF HandledMention(msg[e]) THEN 1 ELSE 0
    /\ Len(posts) =
          Cardinality({e \in Events : Received(e) /\ HandledMention(msg[e])})

C12_Witness ==
    \E e, f \in Events :
        /\ pc[e] = "replied-failure"
        /\ http[e] = HttpFailure("timeout")
        /\ Len(PostsOf(e)) = 1
        /\ pc[f] = "ignored"
        /\ PostsOf(f) = <<>>

\* C13: a non-echo message from a non-ignored author enters mention handling
\* if and only if its lowercased text contains the lowercased bot name as a
\* plain substring (`bot` matches `roBOT`); the `@`-prefixed test never changes
\* that; a message that is no mention gets no reply, no record and no POST.
C13_MentionIsSubstring ==
    \A e \in Events :
        (Received(e) /\ ~msg[e].echo /\ Lower(msg[e].author) \notin ignored_users)
            => LET c == Lower(msg[e].content)
                   plain == Contains(c, Lower(BotNameEnv))
                   at == Contains(c, <<"@">> \o Lower(BotNameEnv))
               IN  /\ (pc[e] # "not-a-mention") <=> plain
                   /\ (plain \/ at) <=> plain
                   /\ PostsOf(e) # <<>> <=> plain
                   /\ ~plain => /\ pc[e] = "not-a-mention"
                                /\ ChatOf(e) = <<>>
                                /\ LogOf(e) = <<>>
                                /\ PostsOf(e) = <<>>

C13_Witness ==
    \E e, f \in Events :
        /\ msg[e] = Msg(Ann, RoBOT, FALSE)
        /\ pc[e] = "replied-success"
        /\ msg[f] = Msg(ann, Hello, FALSE)
        /\ pc[f] = "not-a-mention"

\* the lines of a whole record, as they stand in the file
Block(r) ==
    << [what |-> "type", kind |-> r.kind, text |-> <<>>, ev |-> r.ev],
       [what |-> "User", kind |-> "", text |-> r.user, ev |-> r.ev],
       [what |-> "Message", kind |-> "", text |-> r.message, ev |-> r.ev] >>
    \o (IF r.hasResponse
        THEN <<[what |-> "Bot Response", kind |-> "", text |-> r.response, ev |-> r.ev]>>
        ELSE <<>>)
    \o <<[what |-> "separator", kind |-> "", text |-> <<>>, ev |-> r.ev]>>

RECURSIVE Blocks(_)
Blocks(records) ==
    IF records = <<>> THEN <<>>
    ELSE Block(Head(records)) \o Blocks(Tail(records))

\* the file is the header followed by whole records, and no line of one
\* handler stands between two lines of another
WholeRecords ==
    /\ Len(file) >= 5
    /\ \A i \in 1..5 : file[i].ev = 0
    /\ file[1].what = "started" /\ file[5].what = "rule"
    /\ SubSeq(file, 6, Len(file)) = Blocks(log)
    /\ \A i, j, k \in 1..Len(file) :
          (i < j /\ j < k /\ file[i].ev = file[k].ev) => file[j].ev = file[i].ev

\* a step leaves the lines already in the file where they are
AppendOnly ==
    /\ Len(file') >= Len(file)
    /\ SubSeq(file', 1, Len(file)) = file

\* C14: when handlers overlap, every record is written as one uninterrupted
\* block: the log is always the header followed by whole records, lines of one
\* record never stand between lines of another, and what is in the log is
\* never removed or rewritten.
C14_WholeRecordsAppendOnly == []WholeRecords /\ [][AppendOnly]_vars

\* both handlers overlapped and the later event logged first
C14_Witness ==
    /\ Len(log) = 2
    /\ log[1].ev = 2
    /\ log[1].kind = "SUCCESSFUL RESPONSE"
    /\ log[2].ev = 1
    /\ log[2].kind = "FAILED RESPONSE"
    /\ Len(file) = 5 + 5 + 5

\* every event that reached a logging branch has its record
NoRecordLost ==
    \A e \in Events :
        /\ pc[e] \in {"replied-success", "replied-failure", "replied-error"}
              => Len(LogOf(e)) = 1
        /\ (pc[e] = "ignored" /\ Contains(Lower(msg[e].content), bot_name))
              => Len(LogOf(e)) = 1

\* C15 as stated: no record is lost and the records stand in the log in the
\* order in which their events were received (events are numbered in the
\* order of receipt).
C15_RecordsInReceiptOrder ==
    /\ NoRecordLost
    /\ \A i, j \in 1..Len(log) : i < j => log[i].ev < log[j].ev

\* a step that writes the record of event e appends it to the end of the log,
\* and it is the step in which the handler of e reaches its terminal state
RecordWrittenOnCompletion ==
    \A e \in Events :
        LogOf(e)' # LogOf(e)
            => /\ Len(log') = Len(log) + 1
               /\ SubSeq(log', 1, Len(log)) = log
               /\ log'[Len(log')].ev = e
               /\ pc[e] \notin Terminals
               /\ pc'[e] \in Terminals

\* C15, amended: no record is lost, and the records stand in the log in the
\* order in which the handlers reached their log write, that is the order in
\* which the events reached their terminal state.
C15_RecordsInCompletionOrder ==
    []NoRecordLost /\ [][RecordWrittenOnCompletion]_vars

\* the event received second is logged first
C15_Witness ==
    /\ pc[1] = "replied-success"
    /\ msg[2] = Msg(Troll, AtBotCap, FALSE)
    /\ Len(log) = 2
    /\ log[1].ev = 2
    /\ log[1].kind = "IGNORED USER ATTEMPT"
    /\ log[2].ev = 1

\* C16: every received event eventually reaches a terminal state, and a
\* mention whose POST is still pending when the 30 seconds have passed ends in
\* replied-failure with the fallback reply and a FAILED RESPONSE record.
C16_EveryEventTerminates ==
    \A e \in Events :
        /\ Received(e) ~> Done(e)
        /\ (pc[e] = "generating" /\ waited[e] = Timeout)
              ~> /\ pc[e] = "replied-failure"
                 /\ http[e] = HttpFailure("timeout")
                 /\ ChatOf(e) = <<SentOk(e, FailedMsg)>>
                 /\ LogOf(e) = <<FailureRecord(e, msg[e].author, msg[e].content)>>

\* a mention was abandoned at the timeout and got the fallback reply
C16_Witness ==
    /\ waited[1] = Timeout
    /\ http[1] = HttpFailure("timeout")
    /\ pc[1] = "replied-failure"
    /\ ChatOf(1) = <<SentOk(1, FailedMsg)>>
    /\ LogOf(1) = <<FailureRecord(1, msg[1].author, msg[1].content)>>

\* the handler of event e is suspended at an await
Suspended(e) == Received(e) /\ ~Done(e)

\* while the handler of d is suspended at one of the places `where`, every
\* other event can take its next step: the next event can be received with
\* any message, a pending POST can get an outcome, an awaited send can return
OthersProceed(where) ==
    \A d \in Events : \A e \in Events \ {d} :
        pc[d] \in where =>
            /\ (pc[e] = "idle" /\ \A c \in 1..(e - 1) : pc[c] # "idle")
                  => \A m \in Messages : ENABLED EventMessage(e, m, "ok")
            /\ pc[e] = "generating"
                  => ENABLED (\E h \in HttpOutcomes :
                                 CallReturns(e, h, CallOllama(h), "ok"))
            /\ pc[e] = "sending" => ENABLED SendReturns(e, "ok", "ok")

\* C17 as stated: a pending generation call holds up no other event, and a
\* handler that is suspended is suspended at the generation call.
C17_OnlyGenerationSuspends ==
    /\ OthersProceed({"generating"})
    /\ \A e \in Events : Suspended(e) => pc[e] = "generating"

\* C17, amended: a handler is suspended only at the generation call or at the
\* channel send that follows it, and a handler suspended at either holds up
\* no other event.
C17_SuspendsAtCallOrSend ==
    /\ OthersProceed({"generating", "sending"})
    /\ \A e \in Events :
           Suspended(e) =>
               \/ pc[e] = "generating" /\ ChatOf(e) = <<>>
               \/ /\ pc[e] = "sending"
                  /\ Len(ChatOf(e)) = 1
                  /\ ChatOf(e)[1].st = "pending"

\* the second event was received and answered while the POST of the first is
\* still pending
C17_Witness ==
    /\ pc[1] = "generating"
    /\ res[1] = Pending
    /\ pc[2] = "replied-success"
    /\ Len(ChatOf(2)) = 1
    /\ ChatOf(2)[1].st = "ok"

\* events that ended in a replied-* state
Replied == {e \in Events : pc[e] \in {"replied-success", "replied-failure", "replied-error"}}

\* once an event is in a terminal state it stays in it
TerminalIsFinal ==
    \A e \in Events : Done(e) => pc'[e] = pc[e]

KindAgreesWithReply ==
    \A e \in Replied :
        /\ Len(LogOf(e)) = 1
        /\ Len(ChatOf(e)) = 1
        /\ LET r == LogOf(e)[1]
               sent == AfterPrefix(e, ChatOf(e)[1].body)
           IN  /\ r.kind \in {"SUCCESSFUL RESPONSE", "FAILED RESPONSE", "ERROR"}
               /\ r.kind = "SUCCESSFUL RESPONSE"
                     <=> /\ Truthy(res[e])
                         /\ sent = Truncate(res[e].text)
                         /\ r.response = sent
               /\ r.kind = "FAILED RESPONSE"
                     <=> /\ res[e].tag # "raise"
                         /\ ~Truthy(res[e])
                         /\ sent = FailedMsg
               /\ r.kind = "ERROR"
                     <=> /\ res[e].tag = "raise"
                         /\ sent = OopsMsg
               /\ sent = FailedMsg
                     => \/ r.kind = "FAILED RESPONSE"
                        \/ r.kind = "SUCCESSFUL RESPONSE" /\ res[e].text = FailedMsg
               /\ sent = OopsMsg
                     => \/ r.kind = "ERROR"
                        \/ r.kind = "SUCCESSFUL RESPONSE" /\ res[e].text = OopsMsg
        /\ pc[e] = CASE LogOf(e)[1].kind = "SUCCESSFUL RESPONSE" -> "replied-success"
                     [] LogOf(e)[1].kind = "FAILED RESPONSE"     -> "replied-failure"
                     [] OTHER                                    -> "replied-error"

C19_OwnAuthorMessageText ==
    \A e \in Events :
        /\ \A i \in 1..Len(ChatOf(e)) :
               /\ StartsWith(ChatOf(e)[i].body, <<"@">> \o msg[e].author \o <<" ">>)
               /\ br[e] = "success"
                     => AfterPrefix(e, ChatOf(e)[i].body) = Truncate(res[e].text)
        /\ \A i \in 1..Len(LogOf(e)) :
               /\ LogOf(e)[i].user = msg[e].author
               /\ LogOf(e)[i].message = msg[e].content
               /\ LogOf(e)[i].kind = "SUCCESSFUL RESPONSE"
                     => LogOf(e)[i].response = Truncate(res[e].text)
        /\ \A i \in 1..Len(PostsOf(e)) :
               PostsOf(e)[i].payload = Payload(msg[e].content, msg[e].author)

\* two mentions by different authors were in flight together and got
\* different texts; the one received second finished first
C19_Witness ==
    /\ pc[1] = "replied-success"
    /\ pc[2] = "replied-success"
    /\ msg[1].author # msg[2].author
    /\ msg[1].content # msg[2].content
    /\ res[1].text # res[2].text
    /\ Len(log) = 2
    /\ log[1].ev = 2

====
